---- MODULE Spec2Model ----
(***************************************************************************)
(* The invoice dashboard's request pipeline: the Express routers           *)
(* (server/routes.ts and its serverless twin api/index.ts), the in-process *)
(* file cache, the Gemini extraction adapter and the Mongoose-backed       *)
(* record store (server/storage.ts), with the zod schemas of               *)
(* shared/schema.ts.  Every handler is one action.                         *)
(*                                                                         *)
(* JSON values are tagged records [k, v]: strings are sequences of         *)
(* one-character strings, numbers are integers, objects are functions      *)
(* from field names to values, arrays are sequences.  An absent field is   *)
(* a name outside the object's DOMAIN.                                     *)
(***************************************************************************)
EXTENDS Integers, Sequences, FiniteSets, TLC

\* ------------------------------------------------------------- bounds
MaxUploads == 2
MaxInvoices == 2
MaxClock == 1
MaxAiCalls == 1
MaxLineItems == 2

\* ------------------------------------------------------------- JSON values
Str(s) == [k |-> "string", v |-> s]
Num(n) == [k |-> "number", v |-> n]
Obj(f) == [k |-> "object", v |-> f]
Arr(q) == [k |-> "array", v |-> q]

IsString(x) == x.k = "string"
IsNumber(x) == x.k = "number"
IsObject(x) == x.k = "object"
IsArray(x) == x.k = "array"

\* JavaScript truthiness of a JSON value: !x is true for "" and 0.
Truthy(x) ==
    CASE IsString(x) -> x.v # <<>>
      [] IsNumber(x) -> x.v # 0
      [] OTHER -> TRUE

\* f with the field a set to x (object spread / $set of one key).
SetField(f, a, x) == [b \in DOMAIN f \cup {a} |-> IF b = a THEN x ELSE f[b]]

\* { ...f, ...g }: the keys of g override those of f.
Spread(f, g) == [b \in DOMAIN f \cup DOMAIN g |-> IF b \in DOMAIN g THEN g[b] ELSE f[b]]

\* ------------------------------------------------------------- characters
Digits == <<"0", "1", "2", "3", "4", "5", "6", "7", "8", "9">>
DigitSet == {Digits[i] : i \in 1..10}
DigitVal(c) == CHOOSE n \in 0..9 : Digits[n + 1] = c

\* UTF-16 code unit of the characters the model uses.
CharCode(c) ==
    CASE c = "(" -> 40
      [] c = "-" -> 45
      [] c = "." -> 46
      [] c \in DigitSet -> 48 + DigitVal(c)
      [] c = "A" -> 65
      [] c = "B" -> 66
      [] c = "a" -> 97
      [] c = "b" -> 98
      [] c = "u" -> 117
      [] c = "x" -> 120

\* Canonicalisation of the regular expression flag i (toUpperCase).
ToUpper(c) ==
    CASE c = "a" -> "A"
      [] c = "b" -> "B"
      [] c = "u" -> "U"
      [] c = "x" -> "X"
      [] OTHER -> c

\* Binary string order (MongoDB's default comparison of strings).
RECURSIVE StrLess(_, _)
StrLess(s, t) ==
    IF t = <<>> THEN FALSE
    ELSE IF s = <<>> THEN TRUE
    ELSE IF CharCode(Head(s)) # CharCode(Head(t))
         THEN CharCode(Head(s)) < CharCode(Head(t))
         ELSE StrLess(Tail(s), Tail(t))

StrLeq(s, t) == s = t \/ StrLess(s, t)

\* ------------------------------------------------------------- conversions
\* Date.prototype.toISOString: a fixed-width, zero-padded rendering of the
\* clock reading (the real one is 24 characters; the model keeps two digits).
toISOString(t) == Str(<<Digits[(t \div 10) + 1], Digits[(t % 10) + 1]>>)

\* ObjectId.prototype.toString: fixed-width hexadecimal rendering of the _id.
ObjectIdToString(oid) == <<Digits[(oid \div 10) + 1], Digits[(oid % 10) + 1]>>

\* Mongoose's cast of a route parameter to an ObjectId: a string that is not
\* a full-width hexadecimal rendering raises CastError.
IsObjectIdString(s) == Len(s) = Len(ObjectIdToString(0)) /\ \A i \in 1..Len(s) : s[i] \in DigitSet
CastObjectId(s) == 10 * DigitVal(s[1]) + DigitVal(s[2])

\* A JavaScript number as parseInt produces it: NaN or an integer.
NaN == [nan |-> TRUE, n |-> 0]
JsInt(n) == [nan |-> FALSE, n |-> n]

RECURSIVE LeadingDigits(_)
LeadingDigits(s) ==
    IF s # <<>> /\ Head(s) \in DigitSet
    THEN <<Head(s)>> \o LeadingDigits(Tail(s))
    ELSE <<>>

RECURSIVE DecimalValue(_)
DecimalValue(d) ==
    IF d = <<>> THEN 0
    ELSE 10 * DecimalValue(SubSeq(d, 1, Len(d) - 1)) + DigitVal(d[Len(d)])

\* parseInt(s, 10): optional sign, then the longest prefix of digits.
parseInt(s) ==
    LET neg == s # <<>> /\ Head(s) = "-"
        rest == IF neg THEN Tail(s) ELSE s
        d == LeadingDigits(rest)
    IN  IF d = <<>> THEN NaN
        ELSE JsInt(IF neg THEN 0 - DecimalValue(d) ELSE DecimalValue(d))

\* ------------------------------------------------------------- RegExp
\* new RegExp(search, 'i') over the model's alphabet: letters, digits and "-"
\* are literals, "." matches any character, and "(" opens a group that the
\* alphabet cannot close, so a pattern holding "(" is a SyntaxError.
RegExpCompiles(p) == \A i \in 1..Len(p) : p[i] # "("

AtomMatches(a, c) == a = "." \/ ToUpper(a) = ToUpper(c)

MatchAt(p, s, i) ==
    /\ i + Len(p) - 1 <= Len(s)
    /\ \A j \in 1..Len(p) : AtomMatches(p[j], s[i + j - 1])

\* regex.test(s): an unanchored match somewhere in s.
RegExpTest(p, s) == \E i \in 1..(Len(s) + 1) : MatchAt(p, s, i)

\* ------------------------------------------------------------- zod schemas
\* A required key of the given primitive kind, and an .optional() one.
Required(o, f, kind) == f \in DOMAIN o /\ o[f].k = kind
Optional(o, f, kind) == f \notin DOMAIN o \/ o[f].k = kind
\* z.object strips the keys the schema does not name.
Strip(o, keys) == [f \in DOMAIN o \cap keys |-> o[f]]

LineItemKeys == {"description", "unitPrice", "quantity", "total"}
lineItemSchemaOk(x) ==
    /\ IsObject(x)
    /\ Required(x.v, "description", "string")
    /\ Required(x.v, "unitPrice", "number")
    /\ Required(x.v, "quantity", "number")
    /\ Required(x.v, "total", "number")
lineItemSchemaParse(x) == Obj(Strip(x.v, LineItemKeys))

\* Mutant of vendorSchemaOk: name is z.string().optional().
vendorSchemaOkNameOptional(x) ==
    /\ IsObject(x)
    /\ Optional(x.v, "name", "string")
    /\ Optional(x.v, "address", "string")
    /\ Optional(x.v, "taxId", "string")

VendorKeys == {"name", "address", "taxId"}
vendorSchemaOk(x) ==
    /\ IsObject(x)
    /\ Required(x.v, "name", "string")
    /\ Optional(x.v, "address", "string")
    /\ Optional(x.v, "taxId", "string")
vendorSchemaParse(x) == Obj(Strip(x.v, VendorKeys))

LineItemsOk(x) == IsArray(x) /\ \A i \in 1..Len(x.v) : lineItemSchemaOk(x.v[i])
InvoiceKeys ==
    {"number", "date", "currency", "subtotal", "taxPercent", "total",
     "poNumber", "poDate", "lineItems"}
invoiceSchemaOk(x) ==
    /\ IsObject(x)
    /\ Required(x.v, "number", "string")
    /\ Required(x.v, "date", "string")
    /\ Optional(x.v, "currency", "string")
    /\ Optional(x.v, "subtotal", "number")
    /\ Optional(x.v, "taxPercent", "number")
    /\ Optional(x.v, "total", "number")
    /\ Optional(x.v, "poNumber", "string")
    /\ Optional(x.v, "poDate", "string")
    /\ "lineItems" \in DOMAIN x.v /\ LineItemsOk(x.v["lineItems"])
invoiceSchemaParse(x) ==
    LET o == Strip(x.v, InvoiceKeys)
    IN  Obj(SetField(o, "lineItems",
            Arr([i \in 1..Len(o["lineItems"].v) |-> lineItemSchemaParse(o["lineItems"].v[i])])))

\* The parse of the top-level keys an invoice schema keeps.
ParseTop(o, keys) ==
    [f \in DOMAIN o \cap keys |->
        CASE f = "vendor" -> vendorSchemaParse(o[f])
          [] f = "invoice" -> invoiceSchemaParse(o[f])
          [] OTHER -> o[f]]

\* invoiceDocumentSchema.omit({_id, createdAt, updatedAt})
InsertKeys == {"fileId", "fileName", "vendor", "invoice"}
insertInvoiceSchemaOk(body) ==
    /\ IsObject(body)
    /\ Required(body.v, "fileId", "string")
    /\ Required(body.v, "fileName", "string")
    /\ "vendor" \in DOMAIN body.v /\ vendorSchemaOk(body.v["vendor"])
    /\ "invoice" \in DOMAIN body.v /\ invoiceSchemaOk(body.v["invoice"])
insertInvoiceSchemaParse(body) == ParseTop(body.v, InsertKeys)

\* Mutant of updateInvoiceSchemaParse: unknown keys pass through.
updateInvoiceSchemaPassthrough(body) == body.v

\* Mutant of updateInvoiceSchemaOk: the top-level strings are not type-checked.
updateInvoiceSchemaOkUntyped(body) ==
    /\ IsObject(body)
    /\ "vendor" \in DOMAIN body.v => vendorSchemaOk(body.v["vendor"])
    /\ "invoice" \in DOMAIN body.v => invoiceSchemaOk(body.v["invoice"])

\* invoiceDocumentSchema.omit({_id, createdAt}).partial()
UpdateKeys == {"fileId", "fileName", "vendor", "invoice", "updatedAt"}
updateInvoiceSchemaOk(body) ==
    /\ IsObject(body)
    /\ Optional(body.v, "fileId", "string")
    /\ Optional(body.v, "fileName", "string")
    /\ "vendor" \in DOMAIN body.v => vendorSchemaOk(body.v["vendor"])
    /\ "invoice" \in DOMAIN body.v => invoiceSchemaOk(body.v["invoice"])
    /\ Optional(body.v, "updatedAt", "string")
updateInvoiceSchemaParse(body) == ParseTop(body.v, UpdateKeys)

\* ------------------------------------------------------------- record store
\* A value that may be undefined.
Undefined == [defined |-> FALSE]
Defined(x) == [defined |-> TRUE, value |-> x]

Min(a, b) == IF a <= b THEN a ELSE b
Abs(n) == IF n < 0 THEN 0 - n ELSE n

\* Mongoose's "required: true" on a String path rejects the empty string.
RequiredString(o, f) == Required(o, f, "string") /\ o[f].v # <<>>

\* The validators mongoose runs on save() for the schema of storage.ts.
mongooseValidate(doc) ==
    /\ RequiredString(doc, "fileId")
    /\ RequiredString(doc, "fileName")
    /\ RequiredString(doc["vendor"].v, "name")
    /\ RequiredString(doc["invoice"].v, "number")
    /\ RequiredString(doc["invoice"].v, "date")
    /\ \A i \in 1..Len(doc["invoice"].v["lineItems"].v) :
          RequiredString(doc["invoice"].v["lineItems"].v[i].v, "description")
    /\ RequiredString(doc, "createdAt")

\* MongoStorage.documentToInvoice; an undefined updatedAt is an absent key.
documentToInvoice(oid, doc) ==
    Spread([f \in {"id"} |-> Str(ObjectIdToString(oid))],
           Strip(doc, {"fileId", "fileName", "vendor", "invoice", "createdAt", "updatedAt"}))

\* InvoiceModel.findById(id): the document, or nothing (also on CastError).
FindById(db, id) ==
    IF IsObjectIdString(id) /\ CastObjectId(id) \in DOMAIN db
    THEN Defined(CastObjectId(id))
    ELSE Undefined

\* Mutant of getInvoice: findOne() in place of findById(id).
getInvoiceFindOne(db, id) ==
    IF DOMAIN db # {}
    THEN LET o == CHOOSE o \in DOMAIN db : \A q \in DOMAIN db : o <= q
         IN  Defined(documentToInvoice(o, db[o]))
    ELSE Undefined

\* MongoStorage.getInvoice
getInvoice(db, id) ==
    LET hit == FindById(db, id)
    IN  IF hit.defined
        THEN Defined(documentToInvoice(hit.value, db[hit.value]))
        ELSE Undefined

\* MongoStorage.createInvoice with the freshly generated _id oid at clock t:
\* the new store and the returned invoice, or threw when save() rejects.
createInvoice(db, oid, insertInvoice, t) ==
    LET doc == Spread(insertInvoice, [f \in {"createdAt"} |-> toISOString(t)])
    IN  IF mongooseValidate(doc)
        THEN [threw |-> FALSE,
              db |-> [o \in DOMAIN db \cup {oid} |-> IF o = oid THEN doc ELSE db[o]],
              invoice |-> documentToInvoice(oid, doc)]
        ELSE [threw |-> TRUE, db |-> db]

\* Mutant of updateInvoice: the spread comes last, so a body's updatedAt wins.
updateInvoiceBodyWins(db, id, updateData, t) ==
    LET hit == FindById(db, id)
        update == Spread([f \in {"updatedAt"} |-> toISOString(t)], updateData)
    IN  IF hit.defined
        THEN LET doc == Spread(db[hit.value], update)
             IN  [db |-> [db EXCEPT ![hit.value] = doc],
                  result |-> Defined(documentToInvoice(hit.value, doc))]
        ELSE [db |-> db, result |-> Undefined]

\* Mutant of updateInvoice: findByIdAndUpdate with { upsert: true }.
updateInvoiceUpsert(db, id, updateData, t) ==
    LET update == Spread(updateData, [f \in {"updatedAt"} |-> toISOString(t)])
    IN  IF ~IsObjectIdString(id)
        THEN [db |-> db, result |-> Undefined]
        ELSE LET oid == CastObjectId(id)
                 doc == IF oid \in DOMAIN db THEN Spread(db[oid], update) ELSE update
             IN  [db |-> [o \in DOMAIN db \cup {oid} |-> IF o = oid THEN doc ELSE db[o]],
                  result |-> Defined(documentToInvoice(oid, doc))]

\* Mutant of updateInvoice: the update stamps createdAt as well.
updateInvoiceRestamps(db, id, updateData, t) ==
    LET hit == FindById(db, id)
        update == Spread(updateData, [f \in {"updatedAt", "createdAt"} |-> toISOString(t)])
    IN  IF hit.defined
        THEN LET doc == Spread(db[hit.value], update)
             IN  [db |-> [db EXCEPT ![hit.value] = doc],
                  result |-> Defined(documentToInvoice(hit.value, doc))]
        ELSE [db |-> db, result |-> Undefined]

\* MongoStorage.updateInvoice at clock t: findByIdAndUpdate $sets every
\* top-level key of { ...updateData, updatedAt: now } and returns the new
\* document (new: true); validators do not run on updates.
updateInvoice(db, id, updateData, t) ==
    LET hit == FindById(db, id)
        update == Spread(updateData, [f \in {"updatedAt"} |-> toISOString(t)])
    IN  IF hit.defined
        THEN LET doc == Spread(db[hit.value], update)
             IN  [db |-> [db EXCEPT ![hit.value] = doc],
                  result |-> Defined(documentToInvoice(hit.value, doc))]
        ELSE [db |-> db, result |-> Undefined]

\* Mutant of deleteInvoice: findById in place of findByIdAndDelete.
deleteInvoiceKeeps(db, id) == [db |-> db, result |-> FindById(db, id).defined]

\* MongoStorage.deleteInvoice: findByIdAndDelete, !!result.
deleteInvoice(db, id) ==
    LET hit == FindById(db, id)
    IN  IF hit.defined
        THEN [db |-> [o \in DOMAIN db \ {hit.value} |-> db[o]], result |-> TRUE]
        ELSE [db |-> db, result |-> FALSE]

\* if (search): a defined, non-empty search term.
HasSearch(search) == search.defined /\ search.value # <<>>

\* The query { $or: [ vendor.name ~ regex, invoice.number ~ regex ] }, or {}.
QueryMatches(search, doc) ==
    HasSearch(search) =>
        \/ RegExpTest(search.value, doc["vendor"].v["name"].v)
        \/ RegExpTest(search.value, doc["invoice"].v["number"].v)

\* What makes the try block of getInvoices throw: the search term does not
\* compile, or the server rejects the find command (a negative or NaN skip,
\* a NaN limit).
QueryThrows(search, limit, offset) ==
    \/ HasSearch(search) /\ ~RegExpCompiles(search.value)
    \/ offset.nan
    \/ limit.nan
    \/ offset.n < 0

Perms(S) == {q \in [1..Cardinality(S) -> S] : \A i, j \in 1..Cardinality(S) : q[i] = q[j] => i = j}

\* Mutant of SortCreatedAtDesc: .sort({ createdAt: 1 }).
SortCreatedAtAsc(db, ids) ==
    {q \in Perms(ids) :
        \A i, j \in 1..Len(q) : i < j => StrLeq(db[q[i]]["createdAt"].v, db[q[j]]["createdAt"].v)}

\* .sort({ createdAt: -1 }): the orders of ids the database may return
\* (documents with equal createdAt come in any order).
SortCreatedAtDesc(db, ids) ==
    {q \in Perms(ids) :
        \A i, j \in 1..Len(q) : i < j => StrLeq(db[q[j]]["createdAt"].v, db[q[i]]["createdAt"].v)}

\* .skip(offset).limit(limit): limit 0 is no limit, a negative limit its
\* absolute value.
SkipLimit(q, offset, limit) ==
    LET lim == IF limit = 0 THEN Len(q) ELSE Abs(limit)
    IN  SubSeq(q, offset + 1, Min(Len(q), offset + lim))

\* MongoStorage.getInvoices: the results it may return.
getInvoices(db, search, limit, offset) ==
    IF QueryThrows(search, limit, offset)
    THEN {[invoices |-> <<>>, total |-> 0]}
    ELSE LET ids == {o \in DOMAIN db : QueryMatches(search, db[o])}
         IN  {[invoices |-> [i \in 1..Len(SkipLimit(q, offset.n, limit.n)) |->
                                documentToInvoice(SkipLimit(q, offset.n, limit.n)[i],
                                                  db[SkipLimit(q, offset.n, limit.n)[i]])],
               total |-> Cardinality(ids)] : q \in SortCreatedAtDesc(db, ids)}

\* ------------------------------------------------------------- extraction adapter
\* z.object({ vendor: vendorSchema, invoice: invoiceSchema })
extractionResponseSchemaOk(x) ==
    /\ IsObject(x)
    /\ "vendor" \in DOMAIN x.v /\ vendorSchemaOk(x.v["vendor"])
    /\ "invoice" \in DOMAIN x.v /\ invoiceSchemaOk(x.v["invoice"])
extractionResponseSchemaParse(x) == Obj(ParseTop(x.v, {"vendor", "invoice"}))

\* What one generateContent call may produce: a rejection, or a response
\* whose text is empty, is not JSON, or is the JSON text of a value.
AiFailure == [kind |-> "rejects"]
AiEmpty == [kind |-> "empty"]
AiMalformed == [kind |-> "malformed"]
AiJson(x) == [kind |-> "json", value |-> x]

\* Mutant of extractInvoiceData: the parsed JSON is returned unvalidated.
extractInvoiceDataUnvalidated(ai) ==
    IF ai.kind = "json"
    THEN [threw |-> FALSE, value |-> ai.value]
    ELSE [threw |-> TRUE]

\* extractInvoiceData after its single generateContent call returned ai:
\* every failure is rethrown as one Error.
extractInvoiceData(ai) ==
    IF ai.kind = "json" /\ extractionResponseSchemaOk(ai.value)
    THEN [threw |-> FALSE, value |-> extractionResponseSchemaParse(ai.value)]
    ELSE [threw |-> TRUE]

\* ------------------------------------------------------------- upload filter
\* limits.fileSize of both multer instances, in bytes.
FileSizeLimit == 25 * 1024 * 1024

\* Mutant of MulterRejects: the size limit is not applied.
MulterRejectsNoLimit(file) == file["mimetype"] # "application/pdf"

\* multer: the fileFilter passes only application/pdf, and a file longer
\* than limits.fileSize is refused with LIMIT_FILE_SIZE.
MulterRejects(file) == file["mimetype"] # "application/pdf" \/ file["size"] > FileSizeLimit

\* ------------------------------------------------------------- responses
Json(status, body) == [sent |-> TRUE, status |-> status, json |-> TRUE, body |-> body]
Success(data) == [success |-> TRUE, data |-> data]
\* Mutant of Failure: the message is put beside success, not under error.
FailureFlat(message) == [success |-> FALSE, message |-> message]
Failure(message) == [success |-> FALSE, error |-> [message |-> message]]
FailureCode(message, code) == [success |-> FALSE, error |-> [message |-> message, code |-> code]]
\* Express's default error handler: an HTML page, status 500.
DefaultErrorPage == [sent |-> TRUE, status |-> 500, json |-> FALSE, body |-> "text/html"]
\* Mutant of PdfResponse: the headers are not set before res.send(buffer).
PdfResponseNoType(buffer) ==
    [sent |-> TRUE, status |-> 200, json |-> FALSE, body |-> buffer,
     contentType |-> "application/octet-stream"]
\* res.set({Content-Type: application/pdf}); res.send(buffer)
PdfResponse(buffer) == [sent |-> TRUE, status |-> 200, json |-> FALSE, body |-> buffer,
                        contentType |-> "application/pdf"]
\* No route matched and the callback of handler() sent nothing.
NoResponse == [sent |-> FALSE, status |-> 0, json |-> FALSE, body |-> "none"]

\* ------------------------------------------------------------- state
VARIABLES
    router,       \* which router module this process runs
    fileStorage,  \* the module-level Map of uploaded files, keyed by fileId
    db,           \* the invoices collection: _id -> document
    nextOid,      \* the next ObjectId the driver generates
    connected,    \* MongoStorage.connected
    now,          \* the system clock, in milliseconds
    aiCalls,      \* generateContent calls made so far
    last,         \* the last request, the response it got, and for the
                  \* store's writes the clock reading (at) and the target
                  \* as it was before (prior, existed)
    created,      \* history: id of a stored record -> what createInvoice returned
    updated,      \* history: ids of stored records that an update has touched
    deleted,      \* history: ids that a successful delete has removed
    dash,         \* the state of the Dashboard component in the browser
    calls,        \* the store calls in flight: caller -> where it stands
    connects,     \* mongoose.connect calls started so far
    form,         \* the values of the invoice form, and the last request it
                  \* handed to onSave
    handler       \* the last invocation of the serverless handler

vars == <<router, fileStorage, db, nextOid, connected, now, aiCalls, last,
          created, updated, deleted, dash, calls, connects, form,
          handler>>
\* What lies outside the server process; a request that comes from elsewhere
\* leaves it alone.
outerVars == <<dash, calls, connects, form, handler>>
fileVars == <<fileStorage, aiCalls>>
storeVars == <<db, nextOid, connected, created, updated, deleted>>

Routers == {"server/routes.ts", "api/index.ts"}

\* randomUUID(): the ids a process may draw.
UUID(i) == <<"u", Digits[i + 1]>>
UUIDs == {UUID(i) : i \in 1..MaxUploads}

EmptyMap == <<>>

\* useState('') of Dashboard at mount, for a location with ?invoiceId=url
\* (the empty string when the location has none).  sinceUpload is history:
\* an upload has succeeded in this mount and no save has succeeded since.
Mounted(url) ==
    [currentFileId |-> <<>>, currentFileName |-> <<>>, currentInvoiceId |-> <<>>,
     currentInvoice |-> Undefined, url |-> url, sinceUpload |-> FALSE]

\* defaultValues of useForm.  The form mounts with the first render of
\* Dashboard, when invoiceData is still undefined, so these are the literals.
DefaultLineItem ==
    [k |-> "object",
     v |-> [description |-> [k |-> "string", v |-> <<>>],
            unitPrice |-> [k |-> "number", v |-> 0],
            quantity |-> [k |-> "number", v |-> 1],
            total |-> [k |-> "number", v |-> 0]]]
DefaultValues ==
    [k |-> "object",
     v |-> [vendor |->
                [k |-> "object",
                 v |-> [name |-> [k |-> "string", v |-> <<>>],
                        address |-> [k |-> "string", v |-> <<>>],
                        taxId |-> [k |-> "string", v |-> <<>>]]],
            invoice |->
                [k |-> "object",
                 v |-> [number |-> [k |-> "string", v |-> <<>>],
                        date |-> [k |-> "string", v |-> <<>>],
                        currency |-> [k |-> "string", v |-> <<"U", "S", "D">>],
                        subtotal |-> [k |-> "number", v |-> 0],
                        taxPercent |-> [k |-> "number", v |-> 0],
                        total |-> [k |-> "number", v |-> 0],
                        poNumber |-> [k |-> "string", v |-> <<>>],
                        poDate |-> [k |-> "string", v |-> <<>>],
                        lineItems |-> [k |-> "array", v |-> <<DefaultLineItem>>]]]]]

\* The requests whose store calls may be in flight at the same time.
Callers == {"c1", "c2"}
Idle == [pc |-> "idle"]

Init ==
    /\ router \in Routers
    /\ fileStorage = EmptyMap
    /\ db = EmptyMap
    /\ nextOid = 1
    /\ connected = FALSE
    /\ now = 0
    /\ aiCalls = 0
    /\ last = [op |-> "none"]
    /\ created = EmptyMap
    /\ updated = {}
    /\ deleted = {}
    /\ dash = Mounted(<<>>)
    /\ calls = [c \in Callers |-> Idle]
    /\ connects = 0
    /\ form = [values |-> DefaultValues, request |-> [kind |-> "none"]]
    /\ handler = [pc |-> "idle", resolved |-> FALSE, res |-> NoResponse]

\* ------------------------------------------------------------- inputs
Buffers == {"%PDF-a", "%PDF-b"}
Files ==
    {Defined(f) : f \in [mimetype : {"application/pdf", "image/png"},
                         size : {FileSizeLimit, FileSizeLimit + 1},
                         originalname : {<<"a", ".", "p", "d", "f">>},
                         buffer : Buffers]}
    \cup {Undefined}

\* Bodies of POST /api/extract: no fileId, an empty one, ids the process
\* may have generated, and one it never generates.
ExtractBodies ==
    {Obj(EmptyMap), Obj([fileId |-> Str(<<>>)])}
    \cup {Obj([fileId |-> Str(u)]) : u \in UUIDs \cup {UUID(0)}}

DateStr == Str(<<"2", "4">>)
LineItem(unitPrice, quantity, total) ==
    Obj([description |-> Str(<<"x">>), unitPrice |-> Num(unitPrice),
         quantity |-> Num(quantity), total |-> Num(total)])
GoodVendorA == Obj([name |-> Str(<<"a", "b">>), address |-> Str(<<"x">>)])
GoodVendorB == Obj([name |-> Str(<<"A", "(">>)])
GoodInvoiceA == Obj([number |-> Str(<<"1">>), date |-> DateStr, total |-> Num(3),
                     lineItems |-> Arr(<<LineItem(1, 3, 3)>>)])
GoodInvoiceB == Obj([number |-> Str(<<"b">>), date |-> DateStr, lineItems |-> Arr(<<>>)])

AiOutputs ==
    {AiFailure, AiEmpty, AiMalformed,
     AiJson(Obj([vendor |-> GoodVendorA, invoice |-> GoodInvoiceA])),
     AiJson(Obj([vendor |-> GoodVendorA, invoice |-> GoodInvoiceB])),
     AiJson(Obj([vendor |-> Obj([address |-> Str(<<"x">>)]), invoice |-> GoodInvoiceA]))}

\* ------------------------------------------------------------- file handlers
Tick ==
    /\ now < MaxClock
    /\ now' = now + 1
    /\ UNCHANGED <<router, fileStorage, db, nextOid, connected, aiCalls, last,
                   created, updated, deleted>>

\* Mutant of MapSet: the entry is put into a new Map.
MapSetNew(map, key, value) == [k \in {key} |-> value]

\* Map.prototype.set
MapSet(map, key, value) == [k \in DOMAIN map \cup {key} |-> IF k = key THEN value ELSE map[k]]

\* POST /api/upload.  routes.ts runs multer as middleware, so its errors
\* reach Express's default error handler; api/index.ts awaits the promisified
\* middleware and maps every rejection to a 400.
Upload(file) ==
    /\ IF file.defined /\ ~MulterRejects(file.value)
       THEN \E fileId \in UUIDs \ DOMAIN fileStorage :
            \E t2 \in now..Min(now + 1, MaxClock) :
               /\ fileStorage' =
                      MapSet(fileStorage, fileId,
                             [buffer |-> file.value["buffer"],
                              fileName |-> file.value["originalname"],
                              uploadedAt |-> toISOString(now)])
               /\ now' = t2
               /\ last' = [op |-> "upload", file |-> file,
                           res |-> Json(200, Success([fileId |-> fileId,
                                                       fileName |-> file.value["originalname"],
                                                       fileSize |-> file.value["size"],
                                                       uploadedAt |-> toISOString(t2)]))]
       ELSE /\ last' = [op |-> "upload", file |-> file,
                        res |-> IF router = "api/index.ts"
                                THEN Json(400, Failure("No file uploaded or invalid file type"))
                                ELSE IF file.defined
                                     THEN DefaultErrorPage
                                     ELSE Json(400, Failure("No file uploaded"))]
            /\ UNCHANGED <<fileStorage, now>>
    /\ UNCHANGED <<router, db, nextOid, connected, aiCalls, created, updated, deleted>>

\* Mutant of ExtractGuard: the cache lookup is not checked.
ExtractGuardNoLookup(cache, body) ==
    IF ~("fileId" \in DOMAIN body.v /\ Truthy(body.v["fileId"]))
    THEN "File ID is required"
    ELSE "pass"

\* The two guards of POST /api/extract: if (!fileId) and if (!fileData).
ExtractGuard(cache, body) ==
    IF ~("fileId" \in DOMAIN body.v /\ Truthy(body.v["fileId"]))
    THEN "File ID is required"
    ELSE IF ~(IsString(body.v["fileId"]) /\ body.v["fileId"].v \in DOMAIN cache)
    THEN "File not found"
    ELSE "pass"

\* POST /api/extract (the same code in both routers).
Extract(body, ai) ==
    /\ IF ExtractGuard(fileStorage, body) = "File ID is required"
       THEN /\ last' = [op |-> "extract", body |-> body,
                        res |-> Json(400, Failure("File ID is required"))]
            /\ UNCHANGED aiCalls
       ELSE IF ExtractGuard(fileStorage, body) = "File not found"
       THEN /\ last' = [op |-> "extract", body |-> body,
                        res |-> Json(404, Failure("File not found"))]
            /\ UNCHANGED aiCalls
       ELSE /\ aiCalls < MaxAiCalls
            /\ aiCalls' = aiCalls + 1
            /\ last' = [op |-> "extract", body |-> body, ai |-> ai,
                        res |-> IF extractInvoiceData(ai).threw
                                THEN Json(500, FailureCode("Failed to extract invoice data",
                                                           "EXTRACTION_ERROR"))
                                ELSE Json(200, Success(extractInvoiceData(ai).value))]
    /\ UNCHANGED <<router, fileStorage, db, nextOid, connected, now, created, updated, deleted>>

\* GET /api/files/:fileId, a route only routes.ts registers.
GetFile(fileId) ==
    /\ last' = [op |-> "getFile", fileId |-> fileId,
                res |-> IF router = "api/index.ts"
                        THEN NoResponse
                        ELSE IF fileId \in DOMAIN fileStorage
                             THEN PdfResponse(fileStorage[fileId]["buffer"])
                             ELSE Json(404, Failure("File not found"))]
    /\ UNCHANGED <<router, fileStorage, db, nextOid, connected, now, aiCalls,
                   created, updated, deleted>>

\* ------------------------------------------------------------- invoice inputs
\* Route parameters :id: the ids the store may assign, a well-formed id it
\* never assigns, and a malformed one.
ReqIds == {ObjectIdToString(i) : i \in 0..MaxInvoices} \cup {<<"x">>}

Stamp99 == Str(<<"9", "9">>)
\* A full body that also carries createdAt and updatedAt.
BodyA ==
    Obj([fileId |-> Str(UUID(1)), fileName |-> Str(<<"a">>), vendor |-> GoodVendorA,
         invoice |-> GoodInvoiceA, createdAt |-> Stamp99, updatedAt |-> Stamp99])
BodyB ==
    Obj([fileId |-> Str(UUID(1)), fileName |-> Str(<<"a">>), vendor |-> GoodVendorB,
         invoice |-> GoodInvoiceB])
\* vendor.name missing: rejected by insertInvoiceSchema
BodyNoVendorName ==
    Obj([fileId |-> Str(UUID(1)), fileName |-> Str(<<"a">>),
         vendor |-> Obj([address |-> Str(<<"x">>)]), invoice |-> GoodInvoiceA])
\* an empty fileName: accepted by insertInvoiceSchema, rejected by save()
BodyEmptyFileName ==
    Obj([fileId |-> Str(UUID(1)), fileName |-> Str(<<>>), vendor |-> GoodVendorA,
         invoice |-> GoodInvoiceA])
\* fileName of the wrong type: rejected by insertInvoiceSchema
BodyFileNameArray ==
    Obj([fileId |-> Str(UUID(1)), fileName |-> Arr(<<>>), vendor |-> GoodVendorA,
         invoice |-> GoodInvoiceA])
CreateBodies == {BodyA, BodyB, BodyNoVendorName, BodyEmptyFileName, BodyFileNameArray}

UpdateBodies ==
    {Obj([fileName |-> Str(<<"b">>), createdAt |-> Stamp99, updatedAt |-> Stamp99]),
     \* only a sub-field of invoice: rejected by updateInvoiceSchema
     Obj([invoice |-> Obj([total |-> Num(5)])]),
     \* fileName of the wrong type: rejected by updateInvoiceSchema
     Obj([fileName |-> Arr(<<>>)])}

\* Bodies whose sub-documents matter: a line item with a negative unitPrice
\* and total, a complete vendor, a vendor with an empty name, a vendor
\* without name.
NegativeInvoice == Obj([number |-> Str(<<"1">>), date |-> DateStr,
                        lineItems |-> Arr(<<LineItem(0 - 1, 1, 0 - 1)>>)])
BodyNegativePrice ==
    Obj([fileId |-> Str(UUID(1)), fileName |-> Str(<<"a">>), vendor |-> GoodVendorA,
         invoice |-> NegativeInvoice])
RecordBodies == {BodyA, BodyNoVendorName, BodyNegativePrice}
RecordUpdates ==
    {Obj([vendor |-> GoodVendorB]),
     Obj([vendor |-> Obj([name |-> Str(<<>>)])]),
     Obj([vendor |-> Obj([address |-> Str(<<"x">>)])]),
     Obj([invoice |-> NegativeInvoice])}
RecordIds == {ObjectIdToString(i) : i \in 1..MaxInvoices}

\* Query strings of GET /api/invoices: each of q, limit, offset may be absent.
QueryOf(q, limit, offset) ==
    [f \in {a \in {"q"} : q.defined} \cup {a \in {"limit"} : limit.defined}
           \cup {a \in {"offset"} : offset.defined} |->
        CASE f = "q" -> q.value [] f = "limit" -> limit.value [] OTHER -> offset.value]
Terms == {Undefined} \cup {Defined(t) : t \in {<<>>, <<"a">>, <<"b">>, <<".">>, <<"(">>}}
LimitParams == {Undefined} \cup {Defined(t) : t \in {<<"1">>, <<"0">>, <<"-", "1">>}}
OffsetParams == {Undefined} \cup {Defined(t) : t \in {<<"1">>, <<"-", "1">>}}
\* Every term with the default page, every page without a term, and one
\* term with a page of one at every offset.
Queries ==
    {QueryOf(q, Undefined, Undefined) : q \in Terms}
    \cup {QueryOf(Undefined, l, o) : l \in LimitParams, o \in OffsetParams}
    \cup {QueryOf(Defined(<<"a">>), Defined(<<"1">>), o) : o \in OffsetParams}

\* ------------------------------------------------------------- invoice handlers
Param(query, f, default) == IF f \in DOMAIN query THEN query[f] ELSE default

\* GET /api/invoices.  routes.ts echoes limit and offset, api/index.ts
\* returns the store's result as it is.
ListInvoices(query) ==
    LET search == IF "q" \in DOMAIN query THEN Defined(query["q"]) ELSE Undefined
        limit == parseInt(Param(query, "limit", <<"1", "0">>))
        offset == parseInt(Param(query, "offset", <<"0">>))
    IN  /\ \E result \in getInvoices(db, search, limit, offset) :
              last' = [op |-> "listInvoices", query |-> query,
                       res |-> Json(200, Success(
                                  IF router = "api/index.ts"
                                  THEN result
                                  ELSE [invoices |-> result.invoices, total |-> result.total,
                                        limit |-> limit, offset |-> offset]))]
        /\ connected' = TRUE
        /\ UNCHANGED <<router, fileStorage, db, nextOid, now, aiCalls, created, updated, deleted>>

\* GET /api/invoices/:id
GetInvoice(id) ==
    /\ last' = [op |-> "getInvoice", id |-> id,
                res |-> IF getInvoice(db, id).defined
                        THEN Json(200, Success(getInvoice(db, id).value))
                        ELSE Json(404, Failure("Invoice not found"))]
    /\ connected' = TRUE
    /\ UNCHANGED <<router, fileStorage, db, nextOid, now, aiCalls, created, updated, deleted>>

\* POST /api/invoices: every throw of the try block, the store's included,
\* is answered 400 VALIDATION_ERROR.
CreateInvoice(body) ==
    IF ~insertInvoiceSchemaOk(body)
    THEN /\ last' = [op |-> "createInvoice", body |-> body,
                     res |-> Json(400, FailureCode("ZodError", "VALIDATION_ERROR"))]
         /\ UNCHANGED <<router, fileStorage, db, nextOid, connected, now, aiCalls,
                        created, updated, deleted>>
    ELSE LET r == createInvoice(db, nextOid, insertInvoiceSchemaParse(body), now)
         IN  /\ nextOid <= MaxInvoices
             /\ nextOid' = nextOid + 1
             /\ connected' = TRUE
             /\ db' = r.db
             /\ IF r.threw
                THEN /\ last' = [op |-> "createInvoice", body |-> body, at |-> now,
                                 res |-> Json(400, FailureCode("Failed to create invoice",
                                                               "VALIDATION_ERROR"))]
                     /\ UNCHANGED created
                ELSE /\ last' = [op |-> "createInvoice", body |-> body, at |-> now,
                                 res |-> Json(201, Success(r.invoice))]
                     /\ created' = SetField(created, r.invoice["id"].v, r.invoice)
             /\ UNCHANGED <<router, fileStorage, now, aiCalls, updated, deleted>>

\* PUT /api/invoices/:id
UpdateInvoice(id, body) ==
    IF ~updateInvoiceSchemaOk(body)
    THEN /\ last' = [op |-> "updateInvoice", id |-> id, body |-> body,
                     res |-> Json(400, FailureCode("ZodError", "VALIDATION_ERROR"))]
         /\ UNCHANGED <<router, fileStorage, db, nextOid, connected, now, aiCalls,
                        created, updated, deleted>>
    ELSE LET r == updateInvoice(db, id, updateInvoiceSchemaParse(body), now)
         IN  /\ connected' = TRUE
             /\ db' = r.db
             /\ last' = [op |-> "updateInvoice", id |-> id, body |-> body, at |-> now,
                         prior |-> getInvoice(db, id),
                         res |-> IF r.result.defined
                                 THEN Json(200, Success(r.result.value))
                                 ELSE Json(404, Failure("Invoice not found"))]
             /\ updated' = IF r.result.defined THEN updated \cup {id} ELSE updated
             /\ UNCHANGED <<router, fileStorage, nextOid, now, aiCalls, created, deleted>>

\* DELETE /api/invoices/:id
DeleteInvoice(id) ==
    LET r == deleteInvoice(db, id)
    IN  /\ connected' = TRUE
        /\ db' = r.db
        /\ last' = [op |-> "deleteInvoice", id |-> id, deleted |-> r.result,
                    existed |-> getInvoice(db, id).defined,
                    res |-> IF r.result
                            THEN Json(200, [success |-> TRUE,
                                            message |-> "Invoice deleted successfully"])
                            ELSE Json(404, Failure("Invoice not found"))]
        /\ deleted' = IF r.result THEN deleted \cup {id} ELSE deleted
        /\ created' = [i \in DOMAIN created \ {id} |-> created[i]]
        /\ updated' = updated \ {id}
        /\ UNCHANGED <<router, fileStorage, nextOid, now, aiCalls>>

\* ------------------------------------------------------------- store calls, step by step
\* The awaits of a MongoStorage method, for requests handled concurrently:
\* await this.connect(), then the method's database commands.
serverVars == <<router, fileStorage, db, nextOid, connected, now, aiCalls, last,
                created, updated, deleted>>

\* countDocuments(query)
MatchCount(d, search) == Cardinality({o \in DOMAIN d : QueryMatches(search, d[o])})

SearchOf(query) == IF "q" \in DOMAIN query THEN Defined(query["q"]) ELSE Undefined

\* History: every in-flight list call notes the number of records that
\* match its query in the store d.
Observe(cs, d) ==
    [x \in Callers |->
        IF cs[x].pc # "idle" /\ cs[x].req.kind = "list"
        THEN [cs[x] EXCEPT !.counts = @ \cup {MatchCount(d, SearchOf(cs[x].req.query))}]
        ELSE cs[x]]

\* A request enters a MongoStorage method and reaches await this.connect():
\* connect() returns at once when this.connected is set, and otherwise
\* calls mongoose.connect(mongoUri) and awaits it.
Begin(c, req) ==
    /\ calls[c].pc = "idle"
    /\ calls' = Observe([calls EXCEPT ![c] =
                            [pc |-> IF connected THEN "ready" ELSE "connecting",
                             req |-> req, counts |-> {}, total |-> 0]], db)
    /\ connects' = IF connected THEN connects ELSE connects + 1
    /\ UNCHANGED <<serverVars, dash, form, handler>>

\* mongoose.connect resolves for the caller that awaits it:
\* this.connected = true.
ConnectResolves(c) ==
    /\ calls[c].pc = "connecting"
    /\ connected' = TRUE
    /\ calls' = [calls EXCEPT ![c].pc = "ready"]
    /\ UNCHANGED <<router, fileStorage, db, nextOid, now, aiCalls, last,
                   created, updated, deleted, dash, connects, form, handler>>

\* The response of GET /api/invoices for the store's result.
ListResponse(query, result) ==
    Json(200, Success(IF router = "api/index.ts"
                      THEN result
                      ELSE [invoices |-> result.invoices, total |-> result.total,
                            limit |-> parseInt(Param(query, "limit", <<"1", "0">>)),
                            offset |-> parseInt(Param(query, "offset", <<"0">>))]))

\* getInvoices up to its first database command: new RegExp(search, 'i'),
\* then await countDocuments(query).
ListCount(c) ==
    /\ calls[c].pc = "ready"
    /\ calls[c].req.kind = "list"
    /\ LET query == calls[c].req.query
           search == SearchOf(query)
       IN  IF HasSearch(search) /\ ~RegExpCompiles(search.value)
           THEN /\ last' = [op |-> "listInvoices", query |-> query,
                            counts |-> calls[c].counts,
                            res |-> ListResponse(query, [invoices |-> <<>>, total |-> 0])]
                /\ calls' = [calls EXCEPT ![c] = Idle]
           ELSE /\ calls' = [calls EXCEPT ![c].pc = "find",
                                          ![c].total = MatchCount(db, search)]
                /\ UNCHANGED last
    /\ UNCHANGED <<router, fileStorage, db, nextOid, connected, now, aiCalls,
                   created, updated, deleted, dash, connects, form, handler>>

\* getInvoices from await find(query).sort().skip().limit() to its return,
\* and the response of the route.
ListFind(c) ==
    /\ calls[c].pc = "find"
    /\ LET query == calls[c].req.query
           search == SearchOf(query)
           limit == parseInt(Param(query, "limit", <<"1", "0">>))
           offset == parseInt(Param(query, "offset", <<"0">>))
           ids == {o \in DOMAIN db : QueryMatches(search, db[o])}
       IN  \E result \in
               IF QueryThrows(search, limit, offset)
               THEN {[invoices |-> <<>>, total |-> 0]}
               ELSE {[invoices |-> [i \in 1..Len(SkipLimit(q, offset.n, limit.n)) |->
                                      documentToInvoice(SkipLimit(q, offset.n, limit.n)[i],
                                                        db[SkipLimit(q, offset.n, limit.n)[i]])],
                      total |-> calls[c].total] : q \in SortCreatedAtDesc(db, ids)} :
               last' = [op |-> "listInvoices", query |-> query,
                        counts |-> calls[c].counts,
                        res |-> ListResponse(query, result)]
    /\ calls' = [calls EXCEPT ![c] = Idle]
    /\ UNCHANGED <<router, fileStorage, db, nextOid, connected, now, aiCalls,
                   created, updated, deleted, dash, connects, form, handler>>

\* createInvoice after its connect: the save and the response of the route.
CallCreate(c) ==
    /\ calls[c].pc = "ready"
    /\ calls[c].req.kind = "create"
    /\ CreateInvoice(calls[c].req.body)
    /\ calls' = Observe([calls EXCEPT ![c] = Idle], db')
    /\ UNCHANGED <<dash, connects, form, handler>>

\* deleteInvoice after its connect: findByIdAndDelete and the response.
CallDelete(c) ==
    /\ calls[c].pc = "ready"
    /\ calls[c].req.kind = "delete"
    /\ DeleteInvoice(calls[c].req.id)
    /\ calls' = Observe([calls EXCEPT ![c] = Idle], db')
    /\ UNCHANGED <<dash, connects, form, handler>>

\* ------------------------------------------------------------- dashboard
\* z.string().min(1)
MinString(o, f) == Required(o, f, "string") /\ o[f].v # <<>>

\* The line item schema of invoiceFormSchema.
formLineItemOk(x) ==
    /\ IsObject(x)
    /\ MinString(x.v, "description")
    /\ Required(x.v, "unitPrice", "number") /\ x.v["unitPrice"].v >= 0
    /\ Required(x.v, "quantity", "number") /\ x.v["quantity"].v >= 1
    /\ Required(x.v, "total", "number") /\ x.v["total"].v >= 0

\* invoiceFormSchema, the resolver of the form.
invoiceFormSchemaOk(x) ==
    /\ IsObject(x)
    /\ "vendor" \in DOMAIN x.v /\ IsObject(x.v["vendor"])
    /\ MinString(x.v["vendor"].v, "name")
    /\ Optional(x.v["vendor"].v, "address", "string")
    /\ Optional(x.v["vendor"].v, "taxId", "string")
    /\ "invoice" \in DOMAIN x.v /\ IsObject(x.v["invoice"])
    /\ MinString(x.v["invoice"].v, "number")
    /\ MinString(x.v["invoice"].v, "date")
    /\ Optional(x.v["invoice"].v, "currency", "string")
    /\ Optional(x.v["invoice"].v, "subtotal", "number")
    /\ Optional(x.v["invoice"].v, "taxPercent", "number")
    /\ Optional(x.v["invoice"].v, "total", "number")
    /\ Optional(x.v["invoice"].v, "poNumber", "string")
    /\ Optional(x.v["invoice"].v, "poDate", "string")
    /\ "lineItems" \in DOMAIN x.v["invoice"].v
    /\ IsArray(x.v["invoice"].v["lineItems"])
    /\ Len(x.v["invoice"].v["lineItems"].v) >= 1
    /\ \A i \in 1..Len(x.v["invoice"].v["lineItems"].v) :
          formLineItemOk(x.v["invoice"].v["lineItems"].v[i])
invoiceFormSchemaParse(x) == Obj(ParseTop(x.v, {"vendor", "invoice"}))

\* What the user may have typed into the form when pressing Save.
FormDatas ==
    {Obj([vendor |-> GoodVendorA, invoice |-> GoodInvoiceA]),
     Obj([vendor |-> Obj([name |-> Str(<<>>)]), invoice |-> GoodInvoiceA])}

\* The file name handleSave puts into every create request.
UploadedPdf == Str(<<"u", "p", "l", "o", "a", "d", "e", "d", ".", "p", "d", "f">>)

\* InvoiceForm.handleSave with the props fileId and invoiceData: the request
\* it hands to onSave, if any.
handleSave(fileId, invoiceData, data) ==
    IF invoiceData.defined /\ Truthy(invoiceData.value["id"])
    THEN [kind |-> "update", id |-> invoiceData.value["id"].v,
          body |-> Obj([vendor |-> data.v["vendor"], invoice |-> data.v["invoice"]])]
    ELSE IF fileId # <<>>
    THEN [kind |-> "create",
          body |-> Obj([fileId |-> Str(fileId), fileName |-> UploadedPdf,
                        vendor |-> data.v["vendor"], invoice |-> data.v["invoice"]])]
    ELSE [kind |-> "none"]

\* The effect of Dashboard with the dependencies [location, currentInvoiceId]:
\* it runs after every render in which currentInvoiceId changed, and sets it
\* to the invoiceId of the URL when that differs.  The value it settles on.
useEffectInvoiceId(url, currentInvoiceId) ==
    IF url # <<>> /\ url # currentInvoiceId THEN url ELSE currentInvoiceId

\* setCurrentInvoiceId(id) followed by the effect.  useQuery keeps the data
\* of an unchanged key and has none yet for a new one.
SetCurrentInvoiceId(d, id) ==
    LET settled == useEffectInvoiceId(d.url, id)
    IN  [d EXCEPT !.currentInvoiceId = settled,
                  !.currentInvoice = IF settled = d.currentInvoiceId THEN @ ELSE Undefined]

\* response.ok
ResponseOk(res) == res.status \in 200..299

\* The browser opens /dashboard, with or without ?invoiceId=url: the
\* component mounts and its effect runs.
Navigate(url) ==
    /\ dash' = SetCurrentInvoiceId(Mounted(url), <<>>)
    /\ UNCHANGED <<router, fileStorage, db, nextOid, connected, now, aiCalls, last,
                   created, updated, deleted>>

\* PDFViewer passes a chosen PDF of at most 25 MB to uploadMutation.
DashUpload(file) ==
    /\ file.defined
    /\ file.value["mimetype"] = "application/pdf"
    /\ file.value["size"] <= 25 * 1024 * 1024
    /\ Upload(file)
    /\ dash' = IF ResponseOk(last'.res)
               THEN [SetCurrentInvoiceId(dash, <<>>) EXCEPT
                        !.currentFileId = last'.res.body.data.fileId,
                        !.currentFileName = last'.res.body.data.fileName,
                        !.sinceUpload = TRUE]
               ELSE dash

\* The queryFn of useQuery(['/api/invoices', currentInvoiceId]).
DashQuery ==
    /\ dash.currentInvoiceId # <<>>
    /\ GetInvoice(dash.currentInvoiceId)
    /\ dash' = [dash EXCEPT !.currentInvoice =
                   IF ResponseOk(last'.res) THEN Defined(last'.res.body.data) ELSE @]

\* The form is submitted with data: the resolver (which shows its messages
\* and sends nothing when it rejects), handleSave, then saveInvoiceMutation
\* and its onSuccess.
DashSave(data) ==
    IF ~invoiceFormSchemaOk(data)
    THEN UNCHANGED vars
    ELSE /\ LET req == handleSave(dash.currentFileId, dash.currentInvoice,
                                  invoiceFormSchemaParse(data))
            IN  /\ req.kind # "none"
                /\ IF req.kind = "update"
                   THEN UpdateInvoice(req.id, req.body)
                   ELSE CreateInvoice(req.body)
         /\ dash' = IF ResponseOk(last'.res)
                    THEN [SetCurrentInvoiceId(dash, last'.res.body.data["id"].v) EXCEPT
                             !.sinceUpload = FALSE]
                    ELSE dash

\* handleDelete of the form, deleteInvoiceMutation and its onSuccess.
DashDelete ==
    /\ dash.currentInvoice.defined
    /\ Truthy(dash.currentInvoice.value["id"])
    /\ DeleteInvoice(dash.currentInvoice.value["id"].v)
    /\ dash' = IF ResponseOk(last'.res)
               THEN [SetCurrentInvoiceId(dash, <<>>) EXCEPT
                        !.currentFileId = <<>>, !.currentFileName = <<>>,
                        !.sinceUpload = FALSE]
               ELSE dash

\* ------------------------------------------------------------- invoice form
\* form.getValues().invoice.lineItems and form.setValue of a field of invoice.
Items(values) == values.v["invoice"].v["lineItems"].v
SetInvoice(values, f, x) ==
    Obj(SetField(values.v, "invoice", Obj(SetField(values.v["invoice"].v, f, x))))
SetItems(values, items) == SetInvoice(values, "lineItems", Arr(items))
SetItemField(values, index, f, x) ==
    SetItems(values, [Items(values) EXCEPT ![index] = Obj(SetField(@.v, f, x))])

\* parseFloat(e.target.value) || 0 and parseInt(e.target.value) || 0
OrZero(n) == IF n.nan THEN 0 ELSE n.n

RECURSIVE SumProducts(_)
\* lineItems.reduce((sum, item) => sum + item.unitPrice * item.quantity, 0)
SumProducts(items) ==
    IF items = <<>> THEN 0
    ELSE items[1].v["unitPrice"].v * items[1].v["quantity"].v + SumProducts(Tail(items))

\* updateLineItemTotal(index): the total of that line, then the subtotal and
\* the total of the invoice.  (The typed values keep the division exact.)
updateLineItemTotal(values, index) ==
    LET lineItems == Items(values)
        item == lineItems[index]
        total == item.v["unitPrice"].v * item.v["quantity"].v
        subtotal == SumProducts(lineItems)
        taxPercent == values.v["invoice"].v["taxPercent"].v
        taxAmount == (subtotal * taxPercent) \div 100
        invoiceTotal == subtotal + taxAmount
    IN  SetInvoice(SetInvoice(SetItemField(values, index, "total", Num(total)),
                              "subtotal", Num(subtotal)),
                   "total", Num(invoiceTotal))

\* Mutant of removeLineItem: the length is not checked.
removeLineItemUnguarded(values, index) ==
    SetItems(values, SubSeq(Items(values), 1, index - 1)
                        \o SubSeq(Items(values), index + 1, Len(Items(values))))

\* removeLineItem(index)
removeLineItem(values, index) ==
    IF Len(Items(values)) > 1
    THEN SetItems(values, SubSeq(Items(values), 1, index - 1)
                             \o SubSeq(Items(values), index + 1, Len(Items(values))))
    ELSE values

\* addLineItem
addLineItem(values) == SetItems(values, Append(Items(values), DefaultLineItem))

formFrame == UNCHANGED <<serverVars, dash, calls, connects, handler>>

\* form.request is what the step just taken handed to onSave.
NoRequest == [kind |-> "none"]

AddLineItem ==
    /\ Len(Items(form.values)) < MaxLineItems
    /\ form' = [request |-> NoRequest, values |-> addLineItem(form.values)]
    /\ formFrame

RemoveLineItem(index) ==
    /\ index \in 1..Len(Items(form.values))
    /\ form' = [request |-> NoRequest, values |-> removeLineItem(form.values, index)]
    /\ formFrame

\* onChange of the quantity input of a line.
EditQuantity(index, typed) ==
    /\ index \in 1..Len(Items(form.values))
    /\ form' = [request |-> NoRequest, values |->
                   updateLineItemTotal(
                       SetItemField(form.values, index, "quantity", Num(OrZero(parseInt(typed)))), index)]
    /\ formFrame

\* onChange of the unit price input of a line.
EditUnitPrice(index, typed) ==
    /\ index \in 1..Len(Items(form.values))
    /\ form' = [request |-> NoRequest, values |->
                   updateLineItemTotal(
                       SetItemField(form.values, index, "unitPrice", Num(OrZero(parseInt(typed)))), index)]
    /\ formFrame

\* onChange of the Tax % input.
EditTaxPercent(typed) ==
    /\ form' = [request |-> NoRequest, values |-> SetInvoice(form.values, "taxPercent", Num(OrZero(parseInt(typed))))]
    /\ formFrame

\* The user types the required texts: the vendor's name, the invoice's number
\* and date, and a description for every line.
FillTexts ==
    /\ form' = [request |-> NoRequest, values |->
                   LET v1 == Obj(SetField(form.values.v, "vendor",
                                          Obj(SetField(form.values.v["vendor"].v, "name", Str(<<"a">>)))))
                       v2 == SetInvoice(SetInvoice(v1, "number", Str(<<"1">>)), "date", DateStr)
                   IN  SetItems(v2, [i \in 1..Len(Items(v2)) |->
                                        Obj(SetField(Items(v2)[i].v, "description", Str(<<"x">>)))])]
    /\ formFrame

\* form.reset()
FormReset ==
    /\ form' = [request |-> NoRequest, values |-> DefaultValues]
    /\ formFrame

\* form.handleSubmit(handleSave) with the prop fileId and no invoiceData: the
\* resolver, then handleSave and the request it hands to onSave.
Submit(fileId) ==
    /\ form' = [form EXCEPT !.request =
                   IF invoiceFormSchemaOk(form.values)
                   THEN handleSave(fileId, Undefined, invoiceFormSchemaParse(form.values))
                   ELSE NoRequest]
    /\ formFrame

\* ------------------------------------------------------------- serverless handler
\* res.status(200).end()
EndResponse(status) == [sent |-> TRUE, status |-> status, json |-> FALSE, body |-> "none"]

\* handler() once nothing of the invocation is left to run.  The callback
\* given to app() is Express's `next` of last resort: it runs when a
\* middleware passed an error or when no route took the request, and it is the
\* only caller of resolve.  A route that answers never calls it.
Settled(err, routeRes) ==
    IF err.defined
    THEN [pc |-> "settled", resolved |-> TRUE, res |-> Json(500, Failure(err.value))]
    ELSE IF routeRes.sent
    THEN [pc |-> "settled", resolved |-> FALSE, res |-> routeRes]
    ELSE [pc |-> "settled", resolved |-> TRUE, res |-> NoResponse]

handlerFrame == UNCHANGED <<dash, calls, connects, form>>

\* if (req.method === 'OPTIONS') { res.status(200).end(); return; }
HandleOptions ==
    /\ router = "api/index.ts"
    /\ handler' = [pc |-> "settled", resolved |-> TRUE, res |-> EndResponse(200)]
    /\ UNCHANGED serverVars
    /\ handlerFrame

\* A POST whose body is not JSON: express.json() passes its SyntaxError on.
HandleMalformedJson ==
    /\ router = "api/index.ts"
    /\ handler' = Settled(Defined("Unexpected token"), NoResponse)
    /\ UNCHANGED serverVars
    /\ handlerFrame

\* A request that reaches the routes; `route` is the action of the route.
HandleRequest(route) ==
    /\ router = "api/index.ts"
    /\ route
    /\ handler' = Settled(Undefined, last'.res)
    /\ handlerFrame

\* ------------------------------------------------------------- specifications
FileNext ==
    \/ Tick /\ UNCHANGED outerVars
    \/ \E file \in Files : Upload(file) /\ UNCHANGED outerVars
    \/ \E body \in ExtractBodies, ai \in AiOutputs : Extract(body, ai) /\ UNCHANGED outerVars
    \/ \E fileId \in UUIDs \cup {UUID(0)} : GetFile(fileId) /\ UNCHANGED outerVars

StoreNext ==
    \/ Tick /\ UNCHANGED outerVars
    \/ \E id \in ReqIds : GetInvoice(id) /\ UNCHANGED outerVars
    \/ \E body \in CreateBodies \ {BodyB} : CreateInvoice(body) /\ UNCHANGED outerVars
    \/ \E id \in ReqIds, body \in UpdateBodies : UpdateInvoice(id, body) /\ UNCHANGED outerVars
    \/ \E id \in ReqIds : DeleteInvoice(id) /\ UNCHANGED outerVars

ListNext ==
    \/ Tick /\ UNCHANGED outerVars
    \/ \E query \in Queries : ListInvoices(query) /\ UNCHANGED outerVars
    \/ \E body \in CreateBodies : CreateInvoice(body) /\ UNCHANGED outerVars
    \/ \E id \in ReqIds : DeleteInvoice(id) /\ UNCHANGED outerVars

\* Every route, on one store and one cache.  The cache and the store share
\* no state, so the product is kept small: the store side is one invoice,
\* created by the first create request that passes the schema.
ApiFiles == {f \in Files : f.defined => f.value["size"] = FileSizeLimit}
ApiExtracts ==
    {<<Obj(EmptyMap), AiFailure>>,
     <<Obj([fileId |-> Str(UUID(1))]), AiFailure>>,
     <<Obj([fileId |-> Str(UUID(1))]),
       AiJson(Obj([vendor |-> GoodVendorA, invoice |-> GoodInvoiceA]))>>}
ApiQueries ==
    {QueryOf(Undefined, Undefined, Undefined),
     QueryOf(Defined(<<"(">>), Undefined, Undefined),
     QueryOf(Undefined, Undefined, Defined(<<"-", "1">>))}
ApiIds == {ObjectIdToString(1), <<"x">>}
ApiNext ==
    \/ \E file \in ApiFiles : Upload(file) /\ UNCHANGED outerVars
    \/ \E e \in ApiExtracts : Extract(e[1], e[2]) /\ UNCHANGED outerVars
    \/ \E fileId \in UUIDs \cup {UUID(0)} : GetFile(fileId) /\ UNCHANGED outerVars
    \/ \E query \in ApiQueries : ListInvoices(query) /\ UNCHANGED outerVars
    \/ \E id \in ApiIds : GetInvoice(id) /\ UNCHANGED outerVars
    \/ nextOid = 1 /\ \E body \in {BodyA, BodyNoVendorName} : CreateInvoice(body) /\ UNCHANGED outerVars
    \/ \E id \in ApiIds, body \in UpdateBodies : UpdateInvoice(id, body) /\ UNCHANGED outerVars
    \/ \E id \in ApiIds : DeleteInvoice(id) /\ UNCHANGED outerVars

\* The two writes of the store, with bodies that replace sub-documents.
RecordNext ==
    \/ \E body \in RecordBodies : CreateInvoice(body) /\ UNCHANGED outerVars
    \/ \E id \in RecordIds, body \in RecordUpdates : UpdateInvoice(id, body) /\ UNCHANGED outerVars

\* One browser tab on the dashboard, the only client of the server.
DashFiles == {f \in Files : f.defined /\ f.value["buffer"] = "%PDF-a"}
DashNext ==
    \/ \E url \in RecordIds \cup {<<>>} : Navigate(url) /\ UNCHANGED <<calls, connects, form, handler>>
    \/ \E file \in DashFiles : DashUpload(file) /\ UNCHANGED <<calls, connects, form, handler>>
    \/ DashQuery /\ UNCHANGED <<calls, connects, form, handler>>
    \/ \E data \in FormDatas : DashSave(data) /\ UNCHANGED <<calls, connects, form, handler>>
    \/ DashDelete /\ UNCHANGED <<calls, connects, form, handler>>

\* Two requests at a time, each a list, a create or a delete, and a route
\* that does not use the store.
ConcQueries == {QueryOf(Undefined, Undefined, Undefined),
                QueryOf(Defined(<<"a">>), Undefined, Undefined)}
StoreRequests ==
    {[kind |-> "list", query |-> q] : q \in ConcQueries}
    \cup {[kind |-> "create", body |-> BodyA]}
    \cup {[kind |-> "delete", id |-> i] : i \in RecordIds}
ConcNext ==
    \/ \E c \in Callers, req \in StoreRequests : Begin(c, req)
    \/ \E c \in Callers : ConnectResolves(c)
    \/ \E c \in Callers : ListCount(c)
    \/ \E c \in Callers : ListFind(c)
    \/ \E c \in Callers : CallCreate(c)
    \/ \E c \in Callers : CallDelete(c)
    \/ GetFile(UUID(0)) /\ UNCHANGED outerVars

\* The user at the form.
PriceTyped == {<<>>, <<"2">>}
QuantityTyped == {<<>>, <<"2">>}
TaxTyped == {<<>>, <<"5", "0">>}
FormNext ==
    \/ AddLineItem
    \/ \E index \in 1..MaxLineItems : RemoveLineItem(index)
    \/ \E index \in 1..MaxLineItems, typed \in QuantityTyped : EditQuantity(index, typed)
    \/ \E index \in 1..MaxLineItems, typed \in PriceTyped : EditUnitPrice(index, typed)
    \/ \E typed \in TaxTyped : EditTaxPercent(typed)
    \/ FillTexts
    \/ FormReset
    \/ \E fileId \in {<<>>, UUID(1)} : Submit(fileId)

\* Requests to the serverless function.
HandlerNext ==
    \/ HandleOptions
    \/ HandleMalformedJson
    \/ \E file \in ApiFiles : HandleRequest(Upload(file))
    \/ \E fileId \in UUIDs : HandleRequest(GetFile(fileId))
    \/ \E id \in ApiIds : HandleRequest(GetInvoice(id))
    \/ nextOid = 1 /\ \E body \in {BodyA, BodyNoVendorName} : HandleRequest(CreateInvoice(body))
    \/ \E id \in ApiIds : HandleRequest(DeleteInvoice(id))

Next ==
    FileNext \/ StoreNext \/ ListNext \/ ApiNext \/ RecordNext \/ DashNext \/ ConcNext
    \/ FormNext \/ HandlerNext

\* Every handler of the process.
Spec == Init /\ [][Next]_vars
\* The file cache and the record store share no state: the handlers of each
\* alone.
FileSpec == Init /\ [][FileNext]_vars
StoreSpec == Init /\ [][StoreNext]_vars
ListSpec == Init /\ [][ListNext]_vars
ApiSpec == Init /\ [][ApiNext]_vars
RecordSpec == Init /\ [][RecordNext]_vars
DashSpec == Init /\ [][DashNext]_vars
ConcSpec == Init /\ [][ConcNext]_vars
FormSpec == Init /\ [][FormNext]_vars
HandlerSpec == Init /\ [][HandlerNext]_vars

\* ------------------------------------------------------------- claims: file cache
\* The request body carries a fileId (a non-empty one).
CarriesFileId(body) == "fileId" \in DOMAIN body.v /\ Truthy(body.v["fileId"])

\* C1: an extract request whose fileId has no entry in the file cache is
\* answered 404 with success:false, and the step that answers it makes no
\* call to the extraction adapter.  (A request that carries no fileId, or an
\* empty one, is answered 400, also without a call.)
C1_UnknownFileIdIs404 ==
    [][(/\ last'.op = "extract"
        /\ ~(CarriesFileId(last'.body) /\ last'.body.v["fileId"].v \in DOMAIN fileStorage))
       => /\ aiCalls' = aiCalls
          /\ last'.res.body.success = FALSE
          /\ CarriesFileId(last'.body) => last'.res.status = 404
          /\ ~CarriesFileId(last'.body) => last'.res.status = 400]_vars

\* C1 witness: with a file cached and the adapter already called once for
\* it, an extract for an id the cache does not hold was answered 404.
C1_Witness ==
    /\ last.op = "extract"
    /\ CarriesFileId(last.body)
    /\ last.body.v["fileId"].v \notin DOMAIN fileStorage
    /\ fileStorage # EmptyMap
    /\ aiCalls = 1
    /\ last.res.status = 404

\* The file of an upload request is missing, is not a PDF, or is longer
\* than 25 MB.
BadUpload(file) ==
    \/ ~file.defined
    \/ file.value["mimetype"] # "application/pdf"
    \/ file.value["size"] > 25 * 1024 * 1024

\* C2: an upload whose file is missing, not application/pdf or larger than
\* 25 MB gets an error response (status 4xx or 5xx, never success:true), and
\* the step that answers it leaves the file cache as it was.
C2_BadUploadRejected ==
    [][(last'.op = "upload" /\ BadUpload(last'.file))
       => /\ fileStorage' = fileStorage
          /\ last'.res.status >= 400
          /\ last'.res.json => last'.res.body.success = FALSE]_vars

\* C2 witness: a PDF one byte over the limit was refused while the cache
\* held an earlier upload.
C2_Witness ==
    /\ last.op = "upload"
    /\ last.file.defined
    /\ last.file.value["mimetype"] = "application/pdf"
    /\ last.file.value["size"] = FileSizeLimit + 1
    /\ last.res.status >= 400
    /\ fileStorage # EmptyMap

\* ------------------------------------------------------------- claims: record store
\* The data of the last response.
Data == last.res.body.data

\* C3: a successful create returns a record with a non-empty id, and until
\* the record is deleted every get(id) returns a record with that id, equal
\* in every field to what create returned as long as no update touched it.
C3_CreatedRecordStable ==
    /\ (last.op = "createInvoice" /\ last.res.status = 201) => Data["id"].v # <<>>
    /\ \A id \in DOMAIN created :
          /\ id # <<>>
          /\ getInvoice(db, id).defined
          /\ getInvoice(db, id).value["id"] = Str(id)
          /\ id \notin updated => getInvoice(db, id).value = created[id]
    /\ (last.op = "getInvoice" /\ last.id \in DOMAIN created) =>
          /\ last.res.status = 200
          /\ Data["id"] = Str(last.id)
          /\ last.id \notin updated => Data = created[last.id]

\* C3 witness: with two records stored and the other one updated, a get of
\* the untouched record succeeded.
C3_Witness ==
    /\ last.op = "getInvoice"
    /\ last.id \in DOMAIN created
    /\ last.id \notin updated
    /\ updated # {}
    /\ Cardinality(DOMAIN created) = 2
    /\ last.res.status = 200

\* What C4 says of a state: a deleted id is not found by any later get, and
\* delete answers true (200) exactly when the id named a stored record and
\* false (404, never an error) otherwise.
C4_State ==
    /\ \A id \in deleted : ~getInvoice(db, id).defined
    /\ (last.op = "getInvoice" /\ last.id \in deleted) => last.res.status = 404
    /\ last.op = "deleteInvoice" =>
          /\ last.deleted = last.existed
          /\ last.res.status = (IF last.existed THEN 200 ELSE 404)
          /\ last.existed => last.id \in deleted

\* C4: delete(id) of a stored record returns true and every later get(id)
\* is not-found; delete(id) of an id that names no stored record returns
\* false without an error, and the step leaves the store unchanged.
C4_DeleteSemantics ==
    /\ C4_State
    /\ [][/\ C4_State'
          /\ (last'.op = "deleteInvoice" /\ ~last'.existed) => db' = db]_vars

\* C4 witness: a second delete of an already deleted id returned false
\* while another record was stored.
C4_Witness ==
    /\ last.op = "deleteInvoice"
    /\ last.id \in deleted
    /\ ~last.existed
    /\ ~last.deleted
    /\ db # EmptyMap

\* C5: whatever updates a record has had, also ones whose body carries a
\* createdAt, get(id) returns the createdAt that create returned, and the
\* record an update returns keeps the createdAt of the record before it.
C5_CreatedAtNeverChanges ==
    /\ \A id \in DOMAIN created :
          /\ getInvoice(db, id).defined
          /\ getInvoice(db, id).value["createdAt"] = created[id]["createdAt"]
    /\ (last.op = "getInvoice" /\ last.id \in DOMAIN created) =>
          /\ last.res.status = 200
          /\ Data["createdAt"] = created[last.id]["createdAt"]
    /\ (last.op = "updateInvoice" /\ last.res.status = 200) =>
          Data["createdAt"] = last.prior.value["createdAt"]

\* C5 witness: a second successful update of a record, with a body that
\* carries a createdAt, at a clock reading later than the record's creation.
C5_Witness ==
    /\ last.op = "updateInvoice"
    /\ last.res.status = 200
    /\ "createdAt" \in DOMAIN last.body.v
    /\ "updatedAt" \in DOMAIN last.prior.value
    /\ last.prior.value["createdAt"] # toISOString(last.at)

\* C6: a stored record has an updatedAt exactly when a successful update
\* has touched it (a created record has none, also when the create body
\* carried one), and a successful update sets updatedAt to the clock reading
\* of that update, whatever the body carried.
C6_UpdatedAtSetByUpdate ==
    /\ \A o \in DOMAIN db :
          ("updatedAt" \in DOMAIN db[o]) <=> (ObjectIdToString(o) \in updated)
    /\ (last.op = "createInvoice" /\ last.res.status = 201) =>
          "updatedAt" \notin DOMAIN Data
    /\ (last.op = "getInvoice" /\ last.res.status = 200 /\ last.id \notin updated) =>
          "updatedAt" \notin DOMAIN Data
    /\ (last.op = "updateInvoice" /\ last.res.status = 200) =>
          /\ Data["updatedAt"] = toISOString(last.at)
          /\ getInvoice(db, last.id).defined
          /\ getInvoice(db, last.id).value["updatedAt"] = toISOString(last.at)

\* C6 witness: a create whose body carried an updatedAt succeeded while
\* another record had been updated with a body carrying an updatedAt.
C6_Witness ==
    /\ last.op = "createInvoice"
    /\ last.res.status = 201
    /\ "updatedAt" \in DOMAIN last.body.v
    /\ updated # {}

\* The last request was a successful update of a record that an earlier
\* successful update had touched.
SecondUpdate ==
    /\ last.op = "updateInvoice"
    /\ last.res.status = 200
    /\ "updatedAt" \in DOMAIN last.prior.value

C8_ListNewestFirst ==
    last.op = "listInvoices" =>
        \A i, j \in DOMAIN Data.invoices :
            i < j => StrLeq(Data.invoices[j]["createdAt"].v, Data.invoices[i]["createdAt"].v)

\* C8 witness: a list with a search term returned two records created at
\* different clock readings.
C8_Witness ==
    /\ last.op = "listInvoices"
    /\ "q" \in DOMAIN last.query
    /\ Len(Data.invoices) = 2
    /\ Data.invoices[1]["createdAt"] # Data.invoices[2]["createdAt"]

\* term occurs in s, compared case-insensitively.
ContainsIgnoreCase(term, s) ==
    \E i \in 0..(Len(s) - Len(term)) :
        \A k \in 1..Len(term) : ToUpper(s[i + k]) = ToUpper(term[k])

\* The stored records whose vendor.name or invoice.number contains term.
Containing(term) ==
    {id \in DOMAIN created :
        \/ ContainsIgnoreCase(term, created[id]["vendor"].v["name"].v)
        \/ ContainsIgnoreCase(term, created[id]["invoice"].v["number"].v)}

\* The term has no character that means something else in a regular
\* expression.
Literal(term) == \A k \in 1..Len(term) : term[k] \notin {".", "("}

\* C9 as stated, for terms that are absent or literal: whatever limit and
\* offset the request carries, total is the number of stored records that
\* match the term (all records when no term is given).
C9_TotalCountsMatches ==
    (/\ last.op = "listInvoices"
     /\ "q" \in DOMAIN last.query => Literal(last.query["q"]))
    => Data.total = Cardinality(IF "q" \in DOMAIN last.query
                                THEN Containing(last.query["q"])
                                ELSE DOMAIN created)

\* C10 as stated, for requests with the default page: for a non-empty term
\* list returns exactly the stored records whose vendor.name or
\* invoice.number contains the term, compared case-insensitively.
C10_ExactlyContaining ==
    (/\ last.op = "listInvoices"
     /\ DOMAIN last.query = {"q"}
     /\ last.query["q"] # <<>>)
    => {Data.invoices[i]["id"].v : i \in DOMAIN Data.invoices} = Containing(last.query["q"])

\* ------------------------------------------------------------- claims: router
\* The last request was answered with a JSON body.
JsonResponse == last.op # "none" /\ last.res.sent /\ last.res.json

\* {success: true, data}
SuccessEnvelope(body) == DOMAIN body = {"success", "data"} /\ body.success = TRUE

\* {success: false, error: {message, code?}}
ErrorEnvelope(body) ==
    /\ DOMAIN body = {"success", "error"}
    /\ body.success = FALSE
    /\ DOMAIN body.error \in {{"message"}, {"message", "code"}}

\* C11 as stated: every JSON response of every endpoint is
\* {success:true, data} or {success:false, error:{message, code?}}.
C11_UniformEnvelope ==
    JsonResponse => SuccessEnvelope(last.res.body) \/ ErrorEnvelope(last.res.body)

\* C11 amended: every JSON response is {success:true, data} or
\* {success:false, error:{message, code?}}, except the answer to a
\* successful delete, which is {success:true, message}.
C11_EnvelopeButDelete ==
    JsonResponse =>
        IF last.op = "deleteInvoice" /\ last.res.status = 200
        THEN DOMAIN last.res.body = {"success", "message"} /\ last.res.body.success = TRUE
        ELSE SuccessEnvelope(last.res.body) \/ ErrorEnvelope(last.res.body)

\* C11 witness: a successful delete was answered, in a process that has
\* also stored a file.
C11_Witness ==
    /\ last.op = "deleteInvoice"
    /\ last.res.status = 200
    /\ "message" \in DOMAIN last.res.body
    /\ fileStorage # EmptyMap

\* The body has a field of the wrong type, or a vendor or invoice without a
\* field the schema requires of it.
BadField(body) ==
    \/ "fileName" \in DOMAIN body.v /\ ~IsString(body.v["fileName"])
    \/ "vendor" \in DOMAIN body.v /\ "name" \notin DOMAIN body.v["vendor"].v
    \/ "invoice" \in DOMAIN body.v
          /\ ~({"number", "date", "lineItems"} \subseteq DOMAIN body.v["invoice"].v)

\* The last request was a create or an update whose body fails the schema.
SchemaFailure ==
    /\ last.op \in {"createInvoice", "updateInvoice"}
    /\ BadField(last.body)

\* C12: a create or update request whose body has a required field missing
\* or a field of the wrong type is answered 400 with code VALIDATION_ERROR,
\* and the step leaves the stored records as they were.
C12_InvalidBodyRejected ==
    [][SchemaFailure' =>
          /\ last'.res.status = 400
          /\ last'.res.body.success = FALSE
          /\ last'.res.body.error.code = "VALIDATION_ERROR"
          /\ db' = db]_vars

\* C12 witness: an update of a stored record with a body of the wrong
\* type was refused.
C12_Witness ==
    /\ last.op = "updateInvoice"
    /\ "fileName" \in DOMAIN last.body.v
    /\ ~IsString(last.body.v["fileName"])
    /\ last.id \in DOMAIN created
    /\ last.res.status = 400

\* C13 as stated: a create request whose body passes the schema but whose
\* store write fails is answered 500 with success:false, and no record is
\* added.
C13_StoreFailureIs500 ==
    [][(/\ last'.op = "createInvoice"
        /\ insertInvoiceSchemaOk(last'.body)
        /\ last'.res.status # 201)
       => /\ last'.res.status = 500
          /\ last'.res.body.success = FALSE
          /\ db' = db]_vars

\* The query is one the store fails on: its term is no regular expression,
\* or its offset is negative.
FailingQuery(query) ==
    \/ "q" \in DOMAIN query /\ \E k \in 1..Len(query["q"]) : query["q"][k] = "("
    \/ "offset" \in DOMAIN query /\ query["offset"] = <<"-", "1">>

\* C14 as stated: a list request whose store query fails is answered with
\* the error envelope, never with a successful response.
C14_QueryFailureIsError ==
    (last.op = "listInvoices" /\ FailingQuery(last.query)) =>
        /\ last.res.body.success = FALSE
        /\ last.res.status >= 400

\* C15: a get, an update with a valid body, or a delete whose id names no
\* stored record (never created, already deleted, or malformed) is answered
\* 404 with success:false, and the step leaves the store unchanged.  (A
\* step that changes last is the handling of a request.)
C15_AbsentIdIs404 ==
    [][(/\ last' # last
        /\ \/ last'.op \in {"getInvoice", "deleteInvoice"}
           \/ last'.op = "updateInvoice" /\ ~BadField(last'.body)
        /\ last'.id \notin DOMAIN created)
       => /\ last'.res.status = 404
          /\ last'.res.body.success = FALSE
          /\ db' = db]_vars

\* C15 witness: an update with a valid body of an id that had been deleted
\* was answered 404 while another record was stored.
C15_Witness ==
    /\ last.op = "updateInvoice"
    /\ ~BadField(last.body)
    /\ last.id \in deleted
    /\ last.res.status = 404
    /\ db # EmptyMap

\* ------------------------------------------------------------- claims: extraction and cache
\* The AI call failed, or its output is empty, is not JSON, or lacks a
\* field the extraction schema requires.
BadAiOutcome(ai) ==
    \/ ai.kind # "json"
    \/ ~({"vendor", "invoice"} \subseteq DOMAIN ai.value.v)
    \/ "name" \notin DOMAIN ai.value.v["vendor"].v

C17_UploadAddsOneEntry ==
    [][(/\ last' # last
        /\ last'.op = "upload"
        /\ last'.res.status = 200)
       => /\ last'.res.body.data.fileId \notin DOMAIN fileStorage
          /\ DOMAIN fileStorage' = DOMAIN fileStorage \cup {last'.res.body.data.fileId}
          /\ \A u \in DOMAIN fileStorage : fileStorage'[u] = fileStorage[u]
          /\ fileStorage'[last'.res.body.data.fileId].buffer = last'.file.value["buffer"]]_vars

\* C17 witness: a second upload succeeded and the cache holds two entries
\* with different bytes.
C17_Witness ==
    /\ last.op = "upload"
    /\ last.res.status = 200
    /\ \E u, v \in DOMAIN fileStorage : fileStorage[u].buffer # fileStorage[v].buffer

\* What C18 says of a state of the router that registers the file route
\* (server/routes.ts): the answer to a file request is the bytes the cache
\* holds under that fileId, as application/pdf, or 404 if it holds none.
C18_State ==
    (last.op = "getFile" /\ router = "server/routes.ts") =>
        IF last.fileId \in DOMAIN fileStorage
        THEN /\ last.res.status = 200
             /\ last.res.contentType = "application/pdf"
             /\ last.res.body = fileStorage[last.fileId].buffer
        ELSE /\ last.res.status = 404
             /\ last.res.body.success = FALSE

C19_DeleteRemovesFile ==
    [][(/\ last' # last
        /\ last'.op = "deleteInvoice"
        /\ last'.deleted)
       => getInvoice(db, last'.id).value["fileId"].v \notin DOMAIN fileStorage']_vars

\* Every field the body supplies has the type the invoice schema gives it.
PartialInvoiceBody(body) ==
    /\ "fileName" \in DOMAIN body.v => IsString(body.v["fileName"])
    /\ "invoice" \in DOMAIN body.v =>
          ("total" \in DOMAIN body.v["invoice"].v => IsNumber(body.v["invoice"].v["total"]))

\* C20 as stated: an update of a stored record with a partial invoice body
\* (only some top-level fields, or only some sub-fields of vendor or
\* invoice) is accepted, and in the returned record every field and
\* sub-field the body did not supply keeps its prior value.
C20_PartialUpdateMerges ==
    (/\ last.op = "updateInvoice"
     /\ last.id \in DOMAIN created
     /\ PartialInvoiceBody(last.body))
    => /\ last.res.status = 200
       /\ \A f \in DOMAIN last.prior.value \ (DOMAIN last.body.v \cup {"updatedAt"}) :
             Data[f] = last.prior.value[f]
       /\ \A g \in {"vendor", "invoice"} \cap DOMAIN last.body.v :
             \A h \in DOMAIN last.prior.value[g].v \ DOMAIN last.body.v[g].v :
                 h \in DOMAIN Data[g].v /\ Data[g].v[h] = last.prior.value[g].v[h]
\* ------------------------------------------------------------- claims: schemas
\* The document holds the string field f of its sub-document g.
HasField(doc, g, f) ==
    /\ g \in DOMAIN doc
    /\ IsObject(doc[g])
    /\ f \in DOMAIN doc[g].v
    /\ IsString(doc[g].v[f])

C22_NonNegativePrices ==
    \A o \in DOMAIN db :
        \A i \in 1..Len(db[o]["invoice"].v["lineItems"].v) :
            /\ db[o]["invoice"].v["lineItems"].v[i].v["unitPrice"].v >= 0
            /\ db[o]["invoice"].v["lineItems"].v[i].v["total"].v >= 0
\* ------------------------------------------------------------- claims: dashboard
\* C23 as stated: a record created through the dashboard form after an
\* upload has the fileId that the upload returned and, as fileName, the
\* original file name that the upload returned.
C23_FormRecordNamesUpload ==
    [][(/\ last' # last
        /\ last'.op = "createInvoice"
        /\ last'.res.status = 201
        /\ dash.currentFileId \in DOMAIN fileStorage)
       => /\ last'.res.body.data["fileId"] = Str(dash.currentFileId)
          /\ last'.res.body.data["fileName"] = Str(fileStorage[dash.currentFileId]["fileName"])
          /\ last'.res.body.data["fileName"] = Str(dash.currentFileName)]_vars

\* A step in which the dashboard sends a save (a create or an update).
SaveSent == last' # last /\ last'.op \in {"createInvoice", "updateInvoice"}

\* C28 as stated: after a successful upload the current invoice id of the
\* dashboard is cleared and stays cleared until a save succeeds, also when
\* the page was opened with ?invoiceId=X; and the first save after an upload
\* is a create for the uploaded file, never an update.
C28_UploadClearsInvoiceId ==
    [][/\ dash'.sinceUpload => dash'.currentInvoiceId = <<>>
       /\ (dash.sinceUpload /\ SaveSent)
             => /\ last'.op = "createInvoice"
                /\ last'.body.v["fileId"] = Str(dash.currentFileId)]_vars
\* C24 as stated: every payload that extract returns is accepted, unchanged,
\* by the validation of a manual form submission and, together with the
\* fileId and the fileName of the upload, by the validation of create.
C24_ExtractedPassesFormAndCreate ==
    (last.op = "extract" /\ last.res.status = 200)
    => /\ invoiceFormSchemaOk(Data)
       /\ invoiceFormSchemaParse(Data) = Data
       /\ LET fileId == last.body.v["fileId"]
              body == Obj(Spread(Data.v,
                                 [fileId |-> fileId,
                                  fileName |-> Str(fileStorage[fileId.v]["fileName"])]))
          IN  /\ insertInvoiceSchemaOk(body)
              /\ insertInvoiceSchemaParse(body) = body.v
\* ------------------------------------------------------------- claims: concurrency
\* C25 as stated: the store's connection is a lazily initialised singleton:
\* a connection attempt is started only by a request that enters a store
\* operation, and over any interleaving of concurrent requests at most one
\* attempt is ever started.
C25_LazySingletonConnection ==
    [][/\ connects' <= 1
       /\ connects' # connects
             => \E c \in Callers : calls[c].pc = "idle" /\ calls'[c].pc = "connecting"]_vars

\* C27 as stated: over any interleaving of a list call with concurrent create
\* and delete requests, the number of records the list returns is at most
\* its total, and its total is the number of matching records at some
\* moment during the call.
C27_ListIsSnapshot ==
    last.op = "listInvoices"
    => /\ Len(Data.invoices) <= Data.total
       /\ Data.total \in last.counts

\* ------------------------------------------------------------- claims: form
\* An otherwise valid submission whose line-item list is empty.
EmptyListSubmission == Obj([vendor |-> GoodVendorA, invoice |-> GoodInvoiceB])
RequestItems == form.request.body.v["invoice"].v["lineItems"].v

\* C26: after any sequence of addLineItem and removeLineItem the form's list
\* of line items has at least one entry, every create request the form hands
\* to onSave carries at least one line item, and the resolver rejects a
\* submission whose list is empty.
C26_FormKeepsALineItem ==
    /\ Len(Items(form.values)) >= 1
    /\ form.request.kind = "create" => Len(RequestItems) >= 1
    /\ GoodInvoiceB.v["lineItems"].v = <<>>
    /\ ~invoiceFormSchemaOk(EmptyListSubmission)
    /\ invoiceFormSchemaOk(Obj([vendor |-> GoodVendorA, invoice |-> GoodInvoiceA]))

\* A create request is sent with one line, after a priced line was added and
\* removed (the subtotal still counts it).
C26_Witness ==
    /\ form.request.kind = "create"
    /\ Len(RequestItems) = 1
    /\ form.request.body.v["invoice"].v["subtotal"].v > SumProducts(RequestItems)

\* C29: in the form every line's total is unitPrice * quantity, the subtotal
\* is the sum of the lines' totals, and the total is
\* subtotal + subtotal * taxPercent / 100.
C29_FormArithmetic ==
    LET invoice == form.values.v["invoice"].v
        lineItems == invoice["lineItems"].v
    IN  /\ \A i \in 1..Len(lineItems) :
               lineItems[i].v["total"].v
                   = lineItems[i].v["unitPrice"].v * lineItems[i].v["quantity"].v
        /\ invoice["subtotal"].v = SumProducts(lineItems)
        /\ invoice["total"].v * 100
               = invoice["subtotal"].v * 100 + invoice["subtotal"].v * invoice["taxPercent"].v

\* ------------------------------------------------------------- claims: handler
\* C30: once an invocation of handler has nothing left to run, its promise
\* is resolved and a response has been sent.
C30_HandlerResolvesAfterResponse ==
    handler.pc = "settled" => handler.resolved /\ handler.res.sent

====
